---- MODULE Spec2Model ----
(***************************************************************************)
(* Model of sdf-playground's hot-reload path: the background build loop of *)
(* Compiler::spawn (app/src/compiler.rs), the winit event handler of main  *)
(* (app/src/main.rs) and the Renderer it owns (app/src/renderer.rs), and   *)
(* of the ray-marching loop march() of the shader (shader/src/lib.rs),     *)
(* which has its own specification, MarchSpec.                             *)
(*                                                                         *)
(* Option<T> is modelled as a sequence of length 0 (None) or 1 (Some(x)).  *)
(* Every build attempt gets a number (nbuilds); the compiled module that   *)
(* attempt writes is identified by that number, and a message in the       *)
(* channel carries, besides the PathBuf, the number of the build that sent *)
(* it (a history tag the program itself does not have).                    *)
(***************************************************************************)
EXTENDS Integers, Sequences, FiniteSets, TLC

\* ---- bounds ----
MaxTouches == 2   \* how many times the environment changes the source's mtime
MaxTs == 2        \* distinct modification timestamps
MaxDim == 2       \* distinct window widths / heights
MaxTime == 1      \* params.time saturates here

Timestamps == 1..MaxTs
Dims == 1..MaxDim
MaxBuilds == MaxTouches + 1

\* The one place SpirvBuilder::build() writes the compiled module to.
Paths == {"shader.spv"}

Events == {"RedrawRequested", "MainEventsCleared", "Other"}

VARIABLES
    \* environment
    mtime,                  \* modification time of shader/src/lib.rs
    touches,                \* number of changes of mtime so far
    fs,                     \* Paths -> number of the build whose output the file holds (0: no file)
    \* background thread (Compiler::spawn)
    bpc,                    \* "stat" | "build" | "built" | "sleep"
    previous_modified_at,   \* Option<SystemTime>
    modified_at,            \* SystemTime read in this iteration
    shader_path,            \* Option<PathBuf>: Ok(path) of the running build
    nbuilds,                \* number of build attempts started
    last_outcome,           \* "none" | "ok" | "err": outcome of the last finished build
    chan,                   \* mpsc channel: sequence of [path, build]
    \* host (event_loop.run closure in main)
    hpc,                    \* "poll" | "new" | "redraw" | "render" | "input" | "exited"
    event,                  \* the event being handled
    polled,                 \* Option<PathBuf>: what compiler.poll() returned
    params,                 \* Params {width, height, time}
    renderer,               \* Option<Renderer>
    \* history
    succeeded,              \* numbers of the builds that succeeded, in order
    delivered,              \* numbers of the builds poll() returned, in order
    frame,                  \* Renderer calls issued so far by the current handler run
    built_touches,          \* value of `touches` when the latest build attempt started (-1: none yet)
    \* one invocation of march() (shader/src/lib.rs), along a line through the origin
    m_pc,                   \* "off" | "loop" | "break" | "hit" | "miss"
    m_origin,               \* origin
    m_direction,            \* direction
    m_i,                    \* iterations of `for _ in 0..STEPS` entered = evaluations of scene()
    m_distance,             \* distance
    m_step,                 \* value of the latest scene(time, point)
    m_skipped,              \* an iteration went on although its step was below the threshold
    m_result                \* the Vec3 returned

bgvars == <<bpc, previous_modified_at, modified_at, shader_path, nbuilds, last_outcome,
            built_touches>>
hostvars == <<hpc, event, polled, params, renderer, delivered, frame>>
vars == <<mtime, touches, fs, bpc, previous_modified_at, modified_at, shader_path,
          nbuilds, last_outcome, chan, hpc, event, polled, params, renderer,
          succeeded, delivered, frame, built_touches,
          m_pc, m_origin, m_direction, m_i, m_distance, m_step, m_skipped, m_result>>
marchvars == <<m_pc, m_origin, m_direction, m_i, m_distance, m_step, m_skipped, m_result>>
sysvars == <<mtime, touches, fs, chan, succeeded, bgvars, hostvars>>

Min(a, b) == IF a < b THEN a ELSE b

\* ---- pure helpers ----

\* previous_modified_at.map_or(true, |p| p != modified_at)
needs_build_newer(prev, m) == prev = <<>> \/ prev[1] < m
needs_build(prev, m) == prev = <<>> \/ prev[1] # m

\* tx.send(shader_path) on an unbounded mpsc::channel()
send_overwrite(ch, msg) == <<msg>>
send_front(ch, msg) == <<msg>> \o ch
send(ch, msg) == Append(ch, msg)

\* what rx.try_recv() leaves in the channel after returning Ok(head)
recv_peek(ch) == ch
recv_rest(ch) == Tail(ch)

\* Renderer::new(pixels, width, height, path): reads the file at `path` NOW
RendererNew(fsys, width, height, path) ==
    [path |-> path, module |-> fsys[path], width |-> width, height |-> height,
     params_buffer |-> <<>>]

\* Renderer::resize: *self = Self::new(pixels, width, height, mem::take(&mut self.path))
RendererResize(r, fsys, width, height) == RendererNew(fsys, width, height, r.path)

\* Renderer::update: queue.write_buffer(&self.params_buffer, 0, bytes_of(params))
RendererUpdateNoop(r, p) == r
RendererUpdate(r, p) == [r EXCEPT !.params_buffer = <<p>>]

\* ---- initial state ----
SysInit ==
    /\ mtime \in Timestamps
    /\ touches = 0
    /\ fs = [p \in Paths |-> 0]
    /\ bpc = "stat"
    /\ previous_modified_at = <<>>
    /\ modified_at = mtime
    /\ shader_path = <<>>
    /\ nbuilds = 0
    /\ last_outcome = "none"
    /\ chan = <<>>
    /\ hpc = "poll"
    /\ event = "Other"
    /\ polled = <<>>
    /\ \E w \in Dims, h \in Dims : params = [width |-> w, height |-> h, time |-> 0]
    /\ renderer = <<>>
    /\ succeeded = <<>>
    /\ delivered = <<>>
    /\ frame = <<>>
    /\ built_touches = -1

\* no pixel is being shaded
MarchOff ==
    /\ m_pc = "off"
    /\ m_origin = 0
    /\ m_direction = 1
    /\ m_i = 0
    /\ m_distance = 0
    /\ m_step = 0
    /\ m_skipped = FALSE
    /\ m_result = 0

Init == SysInit /\ MarchOff

Running == hpc # "exited"

\* ---- environment ----
\* The user saves the shader source: its mtime changes to any other value.
Touch ==
    /\ Running
    /\ touches < MaxTouches
    /\ \E t \in Timestamps \ {mtime} : mtime' = t
    /\ touches' = touches + 1
    /\ UNCHANGED <<fs, chan, succeeded>>
    /\ UNCHANGED bgvars
    /\ UNCHANGED hostvars
    /\ UNCHANGED marchvars

\* ---- background thread ----
\* loop head: read metadata().modified() and compare with previous_modified_at
BgStat ==
    /\ Running
    /\ bpc = "stat"
    /\ modified_at' = mtime
    /\ IF needs_build(previous_modified_at, mtime)
       THEN /\ nbuilds < MaxBuilds
            /\ bpc' = "build"
            /\ nbuilds' = nbuilds + 1
            /\ built_touches' = touches
       ELSE /\ bpc' = "sleep"
            /\ nbuilds' = nbuilds
            /\ built_touches' = built_touches
    /\ UNCHANGED <<previous_modified_at, shader_path, last_outcome>>
    /\ UNCHANGED <<mtime, touches, fs, chan, succeeded>>
    /\ UNCHANGED hostvars
    /\ UNCHANGED marchvars

\* thread::sleep(Duration::from_millis(5))
BgSleep ==
    /\ Running
    /\ bpc = "sleep"
    /\ bpc' = "stat"
    /\ UNCHANGED <<previous_modified_at, modified_at, shader_path, nbuilds, built_touches, last_outcome>>
    /\ UNCHANGED <<mtime, touches, fs, chan, succeeded>>
    /\ UNCHANGED hostvars
    /\ UNCHANGED marchvars

\* SpirvBuilder::build() succeeds: the module file is written, Ok(path) returned
BgBuildOutput ==
    /\ Running
    /\ bpc = "build"
    /\ \E p \in Paths :
         /\ fs' = [fs EXCEPT ![p] = nbuilds]
         /\ shader_path' = <<p>>
    /\ bpc' = "built"
    /\ UNCHANGED <<previous_modified_at, modified_at, nbuilds, built_touches, last_outcome>>
    /\ UNCHANGED <<mtime, touches, chan, succeeded>>
    /\ UNCHANGED hostvars
    /\ UNCHANGED marchvars

\* if let Ok(shader_path) = shader_path { _ = tx.send(shader_path) }
\* previous_modified_at = Some(modified_at)
BgBuildOk ==
    /\ Running
    /\ bpc = "built"
    /\ chan' = send(chan, [path |-> shader_path[1], build |-> nbuilds])
    /\ succeeded' = Append(succeeded, nbuilds)
    /\ previous_modified_at' = <<modified_at>>
    /\ shader_path' = <<>>
    /\ last_outcome' = "ok"
    /\ bpc' = "stat"
    /\ UNCHANGED <<modified_at, nbuilds, built_touches>>
    /\ UNCHANGED <<mtime, touches, fs>>
    /\ UNCHANGED hostvars
    /\ UNCHANGED marchvars

\* else { error!("Compilation failed") }; previous_modified_at = Some(modified_at)
BgBuildErrRetry ==
    /\ Running
    /\ bpc = "build"
    /\ last_outcome' = "err"
    /\ bpc' = "stat"
    /\ UNCHANGED <<previous_modified_at, modified_at, shader_path, nbuilds, built_touches>>
    /\ UNCHANGED <<mtime, touches, fs, chan, succeeded>>
    /\ UNCHANGED hostvars
    /\ UNCHANGED marchvars
BgBuildErr ==
    /\ Running
    /\ bpc = "build"
    /\ previous_modified_at' = <<modified_at>>
    /\ last_outcome' = "err"
    /\ bpc' = "stat"
    /\ UNCHANGED <<modified_at, shader_path, nbuilds, built_touches>>
    /\ UNCHANGED <<mtime, touches, fs, chan, succeeded>>
    /\ UNCHANGED hostvars
    /\ UNCHANGED marchvars

Bg == BgStat \/ BgSleep \/ BgBuildOutput \/ BgBuildOk \/ BgBuildErr

\* ---- host: one run of the event_loop.run closure ----
\* an event arrives; compiler.poll() == self.rx.try_recv().ok()
HostPollBlocking ==
    /\ hpc = "poll"
    /\ chan # <<>>
    /\ \E e \in Events : event' = e
    /\ frame' = <<>>
    /\ polled' = <<Head(chan).path>>
    /\ delivered' = Append(delivered, Head(chan).build)
    /\ chan' = recv_rest(chan)
    /\ hpc' = "new"
    /\ UNCHANGED <<params, renderer>>
    /\ UNCHANGED <<mtime, touches, fs, succeeded>>
    /\ UNCHANGED bgvars
    /\ UNCHANGED marchvars
HostPoll ==
    /\ hpc = "poll"
    /\ \E e \in Events : event' = e
    /\ frame' = <<>>
    /\ IF chan # <<>>
       THEN /\ polled' = <<Head(chan).path>>
            /\ delivered' = Append(delivered, Head(chan).build)
            /\ chan' = recv_rest(chan)
            /\ hpc' = "new"
       ELSE /\ polled' = <<>>
            /\ delivered' = delivered
            /\ chan' = chan
            /\ hpc' = "redraw"
    /\ UNCHANGED <<params, renderer>>
    /\ UNCHANGED <<mtime, touches, fs, succeeded>>
    /\ UNCHANGED bgvars
    /\ UNCHANGED marchvars

\* renderer = Some(Renderer::new(&pixels, params.width, params.height, path))
HostNew ==
    /\ hpc = "new"
    /\ renderer' = <<RendererNew(fs, params.width, params.height, polled[1])>>
    /\ frame' = Append(frame, "new")
    /\ hpc' = "redraw"
    /\ UNCHANGED <<event, polled, params, delivered>>
    /\ UNCHANGED <<mtime, touches, fs, chan, succeeded>>
    /\ UNCHANGED bgvars
    /\ UNCHANGED marchvars

\* RedrawRequested with a renderer: scaling_renderer.render(..); renderer.update(queue, &params)
HostUpdate ==
    /\ hpc = "redraw"
    /\ event = "RedrawRequested"
    /\ renderer # <<>>
    /\ renderer' = <<RendererUpdate(renderer[1], params)>>
    /\ frame' = Append(frame, "update")
    /\ hpc' = "render"
    /\ UNCHANGED <<event, polled, params, delivered>>
    /\ UNCHANGED <<mtime, touches, fs, chan, succeeded>>
    /\ UNCHANGED bgvars
    /\ UNCHANGED marchvars

\* renderer.render(encoder, target); params.time += delta.elapsed()
HostRender ==
    /\ hpc = "render"
    /\ frame' = Append(frame, "render")
    /\ \E d \in 0..1 : params' = [params EXCEPT !.time = Min(params.time + d, MaxTime)]
    /\ hpc' = "input"
    /\ UNCHANGED <<event, polled, renderer, delivered>>
    /\ UNCHANGED <<mtime, touches, fs, chan, succeeded>>
    /\ UNCHANGED bgvars
    /\ UNCHANGED marchvars

\* RedrawRequested without a renderer: pixels.render()
HostRenderBlank ==
    /\ hpc = "redraw"
    /\ event = "RedrawRequested"
    /\ renderer = <<>>
    /\ hpc' = "input"
    /\ UNCHANGED <<event, polled, params, renderer, delivered, frame>>
    /\ UNCHANGED <<mtime, touches, fs, chan, succeeded>>
    /\ UNCHANGED bgvars
    /\ UNCHANGED marchvars

\* any other event: the RedrawRequested branch is skipped
HostNoRedraw ==
    /\ hpc = "redraw"
    /\ event # "RedrawRequested"
    /\ hpc' = "input"
    /\ UNCHANGED <<event, polled, params, renderer, delivered, frame>>
    /\ UNCHANGED <<mtime, touches, fs, chan, succeeded>>
    /\ UNCHANGED bgvars
    /\ UNCHANGED marchvars

\* input.update(&event) is false (it is true only on MainEventsCleared)
HostInputIgnored ==
    /\ hpc = "input"
    /\ event # "MainEventsCleared"
    /\ hpc' = "poll"
    /\ UNCHANGED <<event, polled, params, renderer, delivered, frame>>
    /\ UNCHANGED <<mtime, touches, fs, chan, succeeded>>
    /\ UNCHANGED bgvars
    /\ UNCHANGED marchvars

\* Escape pressed or close requested: *control_flow = ControlFlow::Exit
HostExit ==
    /\ hpc = "input"
    /\ event = "MainEventsCleared"
    /\ hpc' = "exited"
    /\ UNCHANGED <<event, polled, params, renderer, delivered, frame>>
    /\ UNCHANGED <<mtime, touches, fs, chan, succeeded>>
    /\ UNCHANGED bgvars
    /\ UNCHANGED marchvars

\* input.window_resized() is Some(size): params and (if any) the renderer follow
HostResizeNoRebuild(w, h) ==
    /\ hpc = "input"
    /\ event = "MainEventsCleared"
    /\ params' = [params EXCEPT !.width = w, !.height = h]
    /\ renderer' = renderer
    /\ hpc' = "poll"
    /\ UNCHANGED <<event, polled, delivered, frame>>
    /\ UNCHANGED <<mtime, touches, fs, chan, succeeded>>
    /\ UNCHANGED bgvars
    /\ UNCHANGED marchvars
HostResize(w, h) ==
    /\ hpc = "input"
    /\ event = "MainEventsCleared"
    /\ params' = [params EXCEPT !.width = w, !.height = h]
    /\ renderer' = IF renderer # <<>>
                   THEN <<RendererResize(renderer[1], fs, w, h)>>
                   ELSE renderer
    /\ frame' = IF renderer # <<>> THEN Append(frame, "resize") ELSE frame
    /\ hpc' = "poll"
    /\ UNCHANGED <<event, polled, delivered>>
    /\ UNCHANGED <<mtime, touches, fs, chan, succeeded>>
    /\ UNCHANGED bgvars
    /\ UNCHANGED marchvars

\* input.window_resized() is None: only window.request_redraw()
HostNoResize ==
    /\ hpc = "input"
    /\ event = "MainEventsCleared"
    /\ hpc' = "poll"
    /\ UNCHANGED <<event, polled, params, renderer, delivered, frame>>
    /\ UNCHANGED <<mtime, touches, fs, chan, succeeded>>
    /\ UNCHANGED bgvars
    /\ UNCHANGED marchvars

Host ==
    \/ HostPoll
    \/ HostNew
    \/ HostUpdate
    \/ HostRender
    \/ HostRenderBlank
    \/ HostNoRedraw
    \/ HostInputIgnored
    \/ HostExit
    \/ \E w \in Dims, h \in Dims : HostResize(w, h)
    \/ HostNoResize

Next == Touch \/ Bg \/ Host

Spec == Init /\ [][Next]_vars

\* The background thread keeps being scheduled and every build returns.
FairSpec == Init /\ [][Next]_vars /\ WF_vars(Bg)

\* ---- march() (shader/src/lib.rs) ----
\* Lengths are in hundredths; an f32 is an integer in -Inf..Inf, where Inf
\* stands for f32::INFINITY and F32Max for f32::MAX.  The world is one axis:
\* a Vec3 is its coordinate on the line the ray runs along.  scene() is
\* whatever the user has written in lib.rs: each evaluation yields some value
\* of StepValues (NaN excluded).
STEPS == 64
Epsilon == 1
Far == 10000
F32Max == 1000000
Inf == F32Max + 1

Origins == {-700, 0, 700}
Directions == {-1, 1}
StepValues == {-1, 0, Epsilon, Far \div 2, F32Max, Inf}

is_finite(x) == x # Inf /\ x # -Inf

\* f32 addition: infinities absorb, a finite sum beyond f32::MAX rounds to it
\* (exact for the operands march() adds: |a| <= Far or |a| <= 700)
fadd(a, b) ==
    IF a = Inf \/ b = Inf THEN Inf
    ELSE IF a = -Inf \/ b = -Inf THEN -Inf
    ELSE IF a + b > F32Max THEN F32Max
    ELSE IF a + b < -F32Max THEN -F32Max
    ELSE a + b

\* let point = origin + direction * distance
march_point(origin, direction, distance) == fadd(origin, direction * distance)

\* if step < 0.01
is_hit_le(step) == step <= Epsilon
is_hit(step) == step < Epsilon

\* if distance > 100.0
is_far_ge(distance) == distance >= Far
is_far(distance) == distance > Far

\* main_fs calls march(time, ray_origin, ray_direction)
MarchInit ==
    /\ SysInit
    /\ m_pc = "loop"
    /\ m_origin \in Origins
    /\ m_direction \in Directions
    /\ m_i = 0
    /\ m_distance = 0
    /\ m_step = 0
    /\ m_skipped = FALSE
    /\ m_result = 0

\* one iteration of `for _ in 0..STEPS`, scene(time, point) returning `step`
MarchIter(step) ==
    /\ m_pc = "loop"
    /\ m_i < STEPS
    /\ m_i' = m_i + 1
    /\ m_step' = step
    /\ IF is_hit(step)
       THEN /\ m_result' = march_point(m_origin, m_direction, m_distance)
            /\ m_pc' = "hit"
            /\ UNCHANGED <<m_distance, m_skipped>>
       ELSE /\ m_distance' = fadd(m_distance, step)
            /\ m_skipped' = (m_skipped \/ step < Epsilon)
            /\ m_pc' = IF is_far(m_distance') THEN "break" ELSE "loop"
            /\ UNCHANGED m_result
    /\ UNCHANGED <<m_origin, m_direction>>
    /\ UNCHANGED sysvars

\* the loop was left by `break` or by running out of steps: Vec3::INFINITY
MarchMiss ==
    /\ m_pc = "break" \/ (m_pc = "loop" /\ m_i = STEPS)
    /\ m_result' = Inf
    /\ m_pc' = "miss"
    /\ UNCHANGED <<m_origin, m_direction, m_i, m_distance, m_step, m_skipped>>
    /\ UNCHANGED sysvars

MarchNext == (\E step \in StepValues : MarchIter(step)) \/ MarchMiss

MarchSpec == MarchInit /\ [][MarchNext]_vars

TypeOK ==
    /\ mtime \in Timestamps
    /\ touches \in 0..MaxTouches
    /\ bpc \in {"stat", "build", "built", "sleep"}
    /\ hpc \in {"poll", "new", "redraw", "render", "input", "exited"}
    /\ nbuilds \in 0..MaxBuilds
    /\ Len(renderer) <= 1
    /\ Len(polled) <= 1
    /\ Len(previous_modified_at) <= 1

\* ---- properties ----
Pending == [i \in 1..Len(chan) |-> chan[i].build]
Last(q) == q[Len(q)]
HostPolls == hpc = "poll" /\ hpc' # "poll"
HostResizes == hpc = "input" /\ hpc' = "poll" /\ frame' # frame

C2_ExactlyOnce ==
    /\ [](/\ delivered \o Pending = succeeded
          /\ \A i, j \in 1..Len(delivered) : delivered[i] = delivered[j] => i = j
          /\ Len(succeeded) <= nbuilds)
    /\ [][HostPolls => /\ (polled' = <<>>) <=> (chan = <<>>)
                       /\ (polled' = <<>>) => delivered' = delivered]_vars

\* three timestamps seen, two builds succeeded and were delivered, one failed
C2_Witness ==
    /\ nbuilds = 3 /\ bpc # "build" /\ bpc # "built"
    /\ Len(succeeded) = 2 /\ delivered = succeeded /\ polled = <<>>

\* C3: poll() never returns an older artifact after a newer one.
C3_Recency == \A i, j \in 1..Len(delivered) : i < j => delivered[i] < delivered[j]

\* two artifacts have been delivered, a third one is pending
C3_Witness == Len(delivered) >= 2 /\ hpc = "new" /\ chan # <<>>

\* C4: an iteration of the background loop attempts a build iff the timestamp
\* it read differs from previous_modified_at (or that is None); otherwise it
\* only sleeps, leaving the stored timestamp and the channel unchanged.
C4_BuildIffChanged ==
    /\ []((Running /\ bpc = "stat") => ENABLED BgStat)
    /\ [][ /\ (bpc = "stat" /\ bpc' # "stat") =>
               /\ modified_at' = mtime
               /\ (bpc' = "build") <=>
                    (previous_modified_at = <<>> \/ previous_modified_at[1] # mtime)
               /\ (bpc' # "build") =>
                    /\ bpc' = "sleep"
                    /\ previous_modified_at' = previous_modified_at
                    /\ chan' = chan
                    /\ nbuilds' = nbuilds
           /\ (bpc' = "build" /\ bpc # "build") => (bpc = "stat" /\ nbuilds' = nbuilds + 1)
           /\ (bpc = "sleep" /\ bpc' # "sleep") =>
               /\ bpc' = "stat"
               /\ previous_modified_at' = previous_modified_at
               /\ chan' = chan ]_vars

\* a rebuild triggered by a timestamp that went backwards
C4_Witness ==
    /\ bpc = "build" /\ previous_modified_at # <<>>
    /\ modified_at < previous_modified_at[1]

\* C5: a failed build publishes nothing, records the timestamp it read, and
\* leaves the host's Renderer alone; after it no build starts until the source
\* timestamp differs from the one the failed build read.
C5_FailedBuild ==
    [][ /\ (bpc = "build" /\ bpc' = "stat") =>
            /\ chan' = chan
            /\ succeeded' = succeeded
            /\ previous_modified_at' = <<modified_at>>
            /\ renderer' = renderer
            /\ fs' = fs
        /\ (last_outcome = "err" /\ bpc = "stat" /\ bpc' = "build") =>
            /\ previous_modified_at # <<>>
            /\ mtime # previous_modified_at[1] ]_vars

\* a build failed while the host holds a Renderer, and the loop idles
C5_Witness ==
    /\ last_outcome = "err" /\ bpc = "sleep" /\ renderer # <<>>
    /\ chan = <<>> /\ renderer[1].module < nbuilds

\* C6: whatever the background loop is doing, poll() returns at once and the
\* host's next step can be taken: the handler never waits for a build.
C6_HostNeverWaits ==
    /\ hpc = "poll" => ENABLED HostPoll
    /\ hpc # "exited" => ENABLED Host
    /\ (hpc = "redraw" /\ event = "RedrawRequested" /\ renderer # <<>>) => ENABLED HostUpdate
    /\ hpc = "render" => ENABLED HostRender

\* a build is running, poll() returned None and the host is about to draw
\* with the Renderer it holds
C6_Witness ==
    /\ bpc = "build" /\ renderer # <<>> /\ renderer[1].module < nbuilds
    /\ hpc = "render" /\ polled = <<>> /\ chan = <<>>

\* C7 (as stated): the program a Renderer is built from for a polled artifact
\* is the output of the build that published that artifact.
C7_ArtifactImmutable ==
    [][(hpc = "new" /\ hpc' = "redraw") => renderer'[1].module = Last(delivered)]_vars

\* C8 (as stated): resize keeps the shading program the Renderer had.
C8_ResizeSameProgram ==
    [][HostResizes =>
          /\ renderer' # <<>>
          /\ renderer'[1].module = renderer[1].module]_vars

\* C9: a held Renderer's resources have the size of the current viewport.
C9_SizeMatchesViewport ==
    renderer # <<>> =>
        /\ renderer[1].width = params.width
        /\ renderer[1].height = params.height

\* the Renderer was just rebuilt by a resize
C9_Witness == frame # <<>> /\ Last(frame) = "resize" /\ renderer # <<>> /\ hpc = "poll"

\* C10: render is always preceded, in the same handler run and on the same
\* Renderer, by update with the current Params.
C10_UpdateBeforeRender ==
    /\ hpc = "render" =>
          /\ renderer # <<>>
          /\ renderer[1].params_buffer = <<params>>
    /\ \A i \in 1..Len(frame) :
          /\ frame[i] = "render" => (i > 1 /\ frame[i - 1] = "update")
          /\ frame[i] = "new" => i = 1

\* the first frame of a Renderer just built from a new artifact
C10_Witness == frame = <<"new", "update", "render">>

\* C11: march evaluates the scene at most STEPS times; a hit is the point
\* origin + direction * distance of the first evaluation below the threshold,
\* reached with distance within the far plane; the sentinel is returned only
\* when the distance exceeded the far plane or the steps ran out; a finite
\* result is never a point whose scene distance is at or above the threshold,
\* and a hit is never the sentinel.
C11_March ==
    /\ m_i <= STEPS
    /\ ~m_skipped
    /\ m_distance >= 0
    /\ m_pc = "loop" => m_distance <= Far
    /\ m_pc = "hit" =>
          /\ m_step < Epsilon
          /\ m_distance <= Far
          /\ m_result = fadd(m_origin, m_direction * m_distance)
          /\ is_finite(m_result)
          /\ m_result # Inf
    /\ m_pc = "miss" =>
          /\ m_result = Inf
          /\ m_step >= Epsilon
          /\ m_distance > Far \/ m_i = STEPS
    /\ (m_pc \in {"hit", "miss"} /\ is_finite(m_result)) => m_step < Epsilon

\* the ray crept forward by the threshold 63 times and hit at the last step
C11_Witness == m_pc = "hit" /\ m_i = STEPS /\ m_distance = STEPS - 1 /\ m_origin # 0

\* C12 (as stated): every change of the source's timestamp is eventually
\* followed by a build attempt that started after it (unless the process
\* exits first), so the last build attempted is of the final source.
C12_NoMissedChange ==
    \A k \in 1..MaxTouches :
        [](touches >= k => <>(built_touches >= k \/ ~Running))
====
